---- MODULE Spec2Model ----
(***************************************************************************)
(* upsETF: weighted ETF overlap viewer.                                    *)
(*                                                                         *)
(* Four parts of the repository are modelled, each under its own           *)
(* specification over the same variables:                                  *)
(*   Spec / FairSpec  IntersectionService.calculateIntersections           *)
(*                    (src/src/intersections/intersections.service.ts)     *)
(*   ServerSpec       the express server's GET /etf/:ticker and            *)
(*                    POST /api-key handlers                               *)
(*                    (src/src/alphavantage/alphavantage.service.ts)       *)
(*   GuiSpec          AppComponent                                         *)
(*                    (src/etf-overlap-viewer/src/app/app.component.ts)    *)
(*   PlotSpec         AppComponent, the version that fetches holdings      *)
(*                    (src/src/alphavantage/alphavantage.service.ts)       *)
(* Weights are integers (units of weight); the code never does arithmetic  *)
(* on them, so no rounding is involved.                                    *)
(***************************************************************************)
EXTENDS Integers, Sequences, FiniteSets, TLC

VARIABLES
    \* ---- IntersectionService ----
    funds,      \* the holdings data the caller has: ticker -> (symbol -> weight)
    map,        \* IntersectionService.map
    runs,       \* the previous and the last completed call: order of the funds, return value
    pc,         \* FairSpec: position of the running call ("idle", "loop", "done")
    arg,        \* FairSpec: the argument etfs of the running call
    ei,         \* FairSpec: index of the outer loop (for e of etfs)
    hi,         \* FairSpec: index of the inner loop (for h of e.data.holdings)
    processed,  \* FairSpec: loop-body executions of the running call, per symbol
    \* ---- the express server ----
    apiKeyFile,     \* the content of api-key.json
    keyWrites,      \* POST /api-key requests whose fs.writeFile has not completed
    cache,          \* the cache directory: symbol -> content of cache/<symbol>.json
    arrived,        \* how many GET /etf/:ticker requests have arrived
    pending,        \* the GET requests that await axios.get, in arrival order
    reply,          \* the last answer to a GET request
    providerCalls,  \* axios.get calls issued to Alpha Vantage, per symbol
    \* ---- AppComponent ----
    etfs,               \* AppComponent.etfs, the ETF input fields
    selectedEtfIndex,   \* AppComponent.selectedEtfIndex
    isDark,             \* AppComponent.isDark
    hasPlot,            \* AppComponent.hasPlot
    logs,               \* AppComponent.logs, newest first: its most recent entries
    showApiModal,       \* AppComponent.showApiModal
    apiKeyInput,        \* AppComponent.apiKeyInput
    saves,              \* saveApiKey requests whose answer has not arrived
    container,          \* whether plotContainer's element is available
    lastOp,             \* whether the handler that ran last is addEtfField ("addEtfField", "other")
    \* ---- AppComponent, the version that fetches holdings ----
    etf_inputs,         \* AppComponent.etf_inputs, the tickers entered
    etf_data,           \* AppComponent.etf_data, the collected responses
    fetching,           \* getEtfHoldings requests whose answer has not arrived, per symbol
    requested,          \* the symbols the most recent onPlotOverlap asked for
    fetches             \* how many getEtfHoldings requests have been issued

allocVars == <<funds, map, runs, pc, arg, ei, hi, processed>>

serverVars == <<apiKeyFile, keyWrites, cache, arrived, pending, reply, providerCalls>>

guiVars ==
    <<etfs, selectedEtfIndex, isDark, hasPlot, logs, showApiModal, apiKeyInput, saves,
      container, lastOp>>

plotVars == <<etf_inputs, etf_data, fetching, requested, fetches>>

vars == <<allocVars, serverVars, guiVars, plotVars>>

----------------------------------------------------------------------------
(* Bounds of the model *)

\* valid holding weights range over 0..MaxWeight
MaxWeight == 1

\* the README's limit ("Input up to 5 ETF tickers"), the 5 of addEtfField
MaxEtfs == 5

Tickers == {"ETF1", "ETF2", "ETF3"}

Symbols == {"META", "NVDA"}

\* the order in which a provider payload lists its holdings
SymbolOrder == <<"META", "NVDA">>

Weights == 0..MaxWeight

\* one fund's holdings with weights in W: each symbol at most once
HoldingsOver(W) == UNION {[D -> W] : D \in SUBSET Symbols}

\* the holdings data of any set of funds, with valid weights
ValidWeightData == UNION {[F -> HoldingsOver(Weights)] : F \in SUBSET Tickers}

\* holdings data of two funds in which weights may be negative
NegativeWeightData ==
    UNION {[F -> HoldingsOver({-1, 1})] : F \in {G \in SUBSET Tickers : Cardinality(G) = 2}}

FundData == ValidWeightData \cup NegativeWeightData

----------------------------------------------------------------------------
(* Helpers *)

\* the sum of f[x] over the x of S, f a function
RECURSIVE SumOver(_, _)
SumOver(f, S) ==
    IF S = {} THEN 0
    ELSE LET x == CHOOSE y \in S : TRUE IN f[x] + SumOver(f, S \ {x})

MinOf(S) == CHOOSE x \in S : \A y \in S : x <= y

MaxOf(S) == CHOOSE x \in S : \A y \in S : x >= y

\* all orders in which the funds F can be supplied
Orders(F) ==
    {s \in [1..Cardinality(F) -> F] : \A i, j \in DOMAIN s : s[i] = s[j] => i = j}

----------------------------------------------------------------------------
(* Data: EtfPayload and its holdings *)

\* data.holdings of one fund's payload. The field etf is not a field of the
\* code's object: it stands for the object's identity (which payload's array
\* the holding object belongs to).
HoldingsOf(t, f) ==
    LET held == SelectSeq(SymbolOrder, LAMBDA s : s \in DOMAIN f)
    IN  [i \in 1..Len(held) |-> [symbol |-> held[i], weight |-> f[held[i]], etf |-> t]]

EtfPayload(t, f) == [ticker |-> t, holdings |-> HoldingsOf(t, f)]

\* the argument etfs for the funds of data d supplied in order o
EtfPayloads(d, o) == [i \in 1..Len(o) |-> EtfPayload(o[i], d[o[i]])]

----------------------------------------------------------------------------
(* IntersectionService.calculateIntersections *)

\* this.map.find(entry => entry.symbol === symbol): the index of the first
\* entry with the symbol, 0 for undefined
Find(m, symbol) ==
    IF \E i \in DOMAIN m : m[i].symbol = symbol
    THEN MinOf({i \in DOMAIN m : m[i].symbol = symbol})
    ELSE 0

\* a variant that creates the missing entry
LoopBodyCreating(m, h) ==
    LET i == Find(m, h.symbol)
    IN  IF i # 0
        THEN [m EXCEPT ![i].etfs = Append(@, h)]
        ELSE Append(m, [symbol |-> h.symbol, etfs |-> <<h>>])

\* a variant that creates the missing entry and keeps only the last holding
LoopBodyOverwriting(m, h) ==
    LET i == Find(m, h.symbol)
    IN  IF i # 0
        THEN [m EXCEPT ![i].etfs = <<h>>]
        ELSE Append(m, [symbol |-> h.symbol, etfs |-> <<h>>])

\* a variant that creates the missing entry and subtracts the new weight from
\* the weights already recorded
LoopBodySubtracting(m, h) ==
    LET i == Find(m, h.symbol)
    IN  IF i # 0
        THEN [m EXCEPT ![i].etfs =
                Append([k \in DOMAIN @ |-> [@[k] EXCEPT !.weight = @ - h.weight]], h)]
        ELSE Append(m, [symbol |-> h.symbol, etfs |-> <<h>>])

\* the body of the inner loop: the entry of the symbol is looked up and, if
\* there is one, the holding is pushed onto it; nothing creates an entry
LoopBody(m, h) ==
    LET i == Find(m, h.symbol)
    IN  IF i # 0
        THEN [m EXCEPT ![i].etfs = Append(@, h)]
        ELSE m

\* for (const h of e.data.holdings), from index k on
RECURSIVE OverHoldings(_, _, _)
OverHoldings(m, hs, k) ==
    IF k > Len(hs) THEN m ELSE OverHoldings(LoopBody(m, hs[k]), hs, k + 1)

\* a variant that creates the table's entries from the holdings of the first
\* fund of the argument and pushes the holdings of the later funds onto them
RECURSIVE SeedHoldings(_, _, _)
SeedHoldings(m, hs, k) ==
    IF k > Len(hs) THEN m ELSE SeedHoldings(LoopBodyCreating(m, hs[k]), hs, k + 1)

RECURSIVE OverEtfsSeeding(_, _, _)
OverEtfsSeeding(m, payloads, k) ==
    IF k > Len(payloads) THEN m
    ELSE OverEtfsSeeding(IF k = 1 THEN SeedHoldings(m, payloads[k].holdings, 1)
                                  ELSE OverHoldings(m, payloads[k].holdings, 1),
                         payloads, k + 1)

\* for (const e of etfs), from index k on (payloads is the argument etfs)
RECURSIVE OverEtfs(_, _, _)
OverEtfs(m, payloads, k) ==
    IF k > Len(payloads) THEN m
    ELSE OverEtfs(OverHoldings(m, payloads[k].holdings, 1), payloads, k + 1)

\* the value of this.map when the call returns; it is also the return value
calculateIntersections(m, payloads) == OverEtfs(m, payloads, 1)

\* the completed calls that are remembered: the previous one and the last one
Remember(rs, r) == IF rs = <<>> THEN <<r>> ELSE <<rs[Len(rs)], r>>

\* one synchronous call of calculateIntersections, with the caller's funds
\* supplied in any order o
CalculateIntersections ==
    /\ pc = "idle"
    /\ \E o \in Orders(DOMAIN funds) :
        /\ map' = calculateIntersections(map, EtfPayloads(funds, o))
        /\ runs' = Remember(runs, [order |-> o, result |-> map', outcome |-> "returned"])
    /\ UNCHANGED <<funds, pc, arg, ei, hi, processed>>
    /\ UNCHANGED <<serverVars, guiVars, plotVars>>

\* the server, before any request
ServerIdle ==
    /\ apiKeyFile = "missing"
    /\ keyWrites = {}
    /\ cache = <<>>
    /\ arrived = 0
    /\ pending = <<>>
    /\ reply = <<>>
    /\ providerCalls = <<>>

\* the component as constructed
GuiIdle ==
    /\ etfs = <<"">>
    /\ selectedEtfIndex = 0
    /\ isDark = TRUE
    /\ hasPlot = FALSE
    /\ logs = <<>>
    /\ showApiModal = FALSE
    /\ apiKeyInput = ""
    /\ saves = 0
    /\ container = TRUE
    /\ lastOp = "none"
    /\ etf_inputs = <<>>
    /\ etf_data = <<>>
    /\ fetching = <<>>
    /\ requested = {}
    /\ fetches = 0

AllocInit ==
    /\ funds \in FundData
    /\ map = <<>>
    /\ runs = <<>>
    /\ pc = "idle"
    /\ arg = <<>>
    /\ ei = 0
    /\ hi = 0
    /\ processed = [s \in Symbols |-> 0]
    /\ ServerIdle
    /\ GuiIdle

Init == AllocInit

Next == CalculateIntersections

Spec == Init /\ [][Next]_vars

----------------------------------------------------------------------------
(* calculateIntersections statement by statement (FairSpec) *)

\* a for-of loop's iterator moves to the next element
NextIndexStuck(k) == k

NextIndex(k) == k + 1

\* the number of non-empty subsets of MaxEtfs funds
MaxSubsets == 2^MaxEtfs - 1

\* the funds of a statement-by-statement call: which symbols each fund holds
\* is what the loops depend on, so the weights are the two extreme ones
StepData == UNION {[F -> HoldingsOver({0, MaxWeight})] : F \in SUBSET Tickers}

StepInit ==
    /\ AllocInit
    /\ funds \in StepData

\* calculateIntersections is entered with the caller's funds in order o
Call ==
    /\ pc \in {"idle", "done"}
    /\ \E o \in Orders(DOMAIN funds) : arg' = EtfPayloads(funds, o)
    /\ pc' = "loop"
    /\ ei' = 1
    /\ hi' = 1
    /\ processed' = [s \in Symbols |-> 0]
    /\ UNCHANGED <<funds, map, runs>>
    /\ UNCHANGED <<serverVars, guiVars, plotVars>>

\* one execution of the inner loop's body, for holding hi of fund ei
InnerStep ==
    /\ pc = "loop"
    /\ ei <= Len(arg)
    /\ hi <= Len(arg[ei].holdings)
    /\ LET h == arg[ei].holdings[hi]
       IN  /\ map' = LoopBody(map, h)
           /\ processed' = [processed EXCEPT ![h.symbol] = @ + 1]
    /\ hi' = NextIndex(hi)
    /\ UNCHANGED <<funds, runs, pc, arg, ei>>
    /\ UNCHANGED <<serverVars, guiVars, plotVars>>

\* the inner loop is over: the outer loop moves to the next fund
OuterStep ==
    /\ pc = "loop"
    /\ ei <= Len(arg)
    /\ hi > Len(arg[ei].holdings)
    /\ ei' = NextIndex(ei)
    /\ hi' = 1
    /\ UNCHANGED <<funds, map, runs, pc, arg, processed>>
    /\ UNCHANGED <<serverVars, guiVars, plotVars>>

\* the outer loop is over: return this.map
Return ==
    /\ pc = "loop"
    /\ ei > Len(arg)
    /\ pc' = "done"
    /\ UNCHANGED <<funds, map, runs, arg, ei, hi, processed>>
    /\ UNCHANGED <<serverVars, guiVars, plotVars>>

StepNext == Call \/ InnerStep \/ OuterStep \/ Return

\* the statements of a call that has been entered
Running == InnerStep \/ OuterStep \/ Return

\* the call is synchronous: once entered, its next statement is executed
FairSpec == StepInit /\ [][StepNext]_vars /\ WF_vars(Running)

\* C9 (termination): a call that has been entered returns, and while it runs
\* the loop body is executed at most 31 times per distinct symbol.
C9_Termination ==
    /\ (pc = "loop") ~> (pc = "done")
    /\ [](\A s \in Symbols : processed[s] <= MaxSubsets)

\* a call over three funds that all hold one symbol has returned
C9_Witness ==
    /\ pc = "done"
    /\ Len(arg) = Cardinality(Tickers)
    /\ \E s \in Symbols : processed[s] = Cardinality(Tickers)

----------------------------------------------------------------------------
(* The vocabulary of the allocator's claims, read off the returned table *)

\* a FundSet the allocator accepts: 2 to 5 funds, no negative weight
ValidFundSet(d) ==
    /\ Cardinality(DOMAIN d) >= 2
    /\ Cardinality(DOMAIN d) <= MaxEtfs
    /\ \A t \in DOMAIN d : \A s \in DOMAIN d[t] : d[t][s] >= 0

\* the non-empty subsets of the funds F
Subsets(F) == (SUBSET F) \ {{}}

\* the funds whose holdings an entry of the returned table lists
Holders(entry) == {entry.etfs[k].etf : k \in DOMAIN entry.etfs}

\* the weight an entry records for its funds: the minimum of the listed
\* weights (README: "the three-way intersection is the minimum of the three
\* values")
EntryWeight(entry) ==
    IF entry.etfs = <<>> THEN 0
    ELSE MinOf({entry.etfs[k].weight : k \in DOMAIN entry.etfs})

\* IntersectionResult[S] of a returned table: the weight its entries give to
\* exactly the funds S; a subset without an entry has weight 0
IntersectionResult(result, S) ==
    LET mine == {k \in DOMAIN result : Holders(result[k]) = S}
    IN  SumOver([k \in mine |-> EntryWeight(result[k])], mine)

\* the sum of fund t's input holding weights
InputWeight(d, t) == SumOver(d[t], DOMAIN d[t])

\* the funds of d that hold symbol s
HoldersOf(d, s) == {t \in DOMAIN d : s \in DOMAIN d[t]}

\* the weight the nested allocation gives subset S for one symbol s held by
\* every fund of d: S gets something only if it is made of all funds whose
\* weight is at least the least weight in S, and then it gets that least
\* weight minus the greatest weight outside S
NestedShare(d, s, S) ==
    LET least == MinOf({d[t][s] : t \in S})
        upper == {t \in DOMAIN d : d[t][s] >= least}
        below == {d[t][s] : t \in (DOMAIN d) \ S} \cup {0}
    IN  IF S = upper THEN least - MaxOf(below) ELSE 0

----------------------------------------------------------------------------
(* Claims about calculateIntersections, under Spec *)

\* C1 (conservation): after a call on a valid FundSet, for every fund F the
\* weights of the subsets containing F add up to the sum of F's input weights.
C1_Conservation ==
    \A i \in DOMAIN runs :
        ValidFundSet(funds) =>
            \A t \in DOMAIN funds :
                LET with == {S \in Subsets(DOMAIN funds) : t \in S}
                IN  SumOver([S \in with |-> IntersectionResult(runs[i].result, S)], with)
                        = InputWeight(funds, t)

\* C2 (weighted nested allocation): when the funds of a valid FundSet hold
\* one symbol, all of them, then the subset of all funds receives the least
\* weight w1, the subset of the funds ranked i..n receives w_i - w_(i-1), and
\* every other subset receives 0.
C2_NestedAllocation ==
    \A i \in DOMAIN runs :
        \A s \in Symbols :
            (ValidFundSet(funds) /\ \A t \in DOMAIN funds : DOMAIN funds[t] = {s}) =>
                \A S \in Subsets(DOMAIN funds) :
                    IntersectionResult(runs[i].result, S) = NestedShare(funds, s, S)

\* C3 (non-negativity): after a call on a valid FundSet every one of the
\* 2^n - 1 non-empty subsets has a weight >= 0 in the returned table.
C3_NonNegativity ==
    \A i \in DOMAIN runs :
        ValidFundSet(funds) =>
            \A S \in Subsets(DOMAIN funds) : IntersectionResult(runs[i].result, S) >= 0

\* a call on a valid FundSet in which two funds hold the same symbol, with a
\* larger weight in the fund supplied later, has returned
C3_Witness ==
    /\ ValidFundSet(funds)
    /\ runs # <<>>
    /\ \E s \in Symbols : \E a, b \in DOMAIN runs[1].order :
            /\ a < b
            /\ s \in DOMAIN funds[runs[1].order[a]]
            /\ s \in DOMAIN funds[runs[1].order[b]]
            /\ funds[runs[1].order[a]][s] < funds[runs[1].order[b]][s]

\* C4 (disjoint funds): when no symbol is held by more than one fund of a
\* valid FundSet, every subset of two or more funds has weight 0 and each
\* singleton {F} has the sum of F's weights.
C4_DisjointFunds ==
    \A i \in DOMAIN runs :
        (ValidFundSet(funds) /\ \A s \in Symbols : Cardinality(HoldersOf(funds, s)) <= 1) =>
            \A S \in Subsets(DOMAIN funds) :
                IntersectionResult(runs[i].result, S) =
                    IF Cardinality(S) = 1
                    THEN InputWeight(funds, CHOOSE t \in S : TRUE)
                    ELSE 0

\* C5 (symmetry): two calls on the same valid FundSet, its funds supplied in
\* any two orders, give every subset of fund identifiers the same weight.
C5_Symmetry ==
    \A i, j \in DOMAIN runs :
        ValidFundSet(funds) =>
            \A S \in Subsets(DOMAIN funds) :
                IntersectionResult(runs[i].result, S) = IntersectionResult(runs[j].result, S)

\* two calls have returned, the funds supplied in two different orders, and
\* a symbol is held by two funds with different weights
C5_Witness ==
    /\ ValidFundSet(funds)
    /\ Len(runs) = 2
    /\ runs[1].order # runs[2].order
    /\ \E s \in Symbols : \E t, u \in HoldersOf(funds, s) : funds[t][s] # funds[u][s]

\* C6 (idempotence, no hidden state): two calls in a row with identical
\* input return identical output.
C6_Idempotence ==
    \A i, j \in DOMAIN runs :
        runs[i].order = runs[j].order => runs[i].result = runs[j].result

\* two calls in a row with identical input, with holdings in it, have returned
C6_Witness ==
    /\ Len(runs) = 2
    /\ runs[1].order = runs[2].order
    /\ \E t \in DOMAIN funds : DOMAIN funds[t] # {}

\* C7 (invalid input is rejected): a call given fewer than 2 funds, or a
\* negative holding weight, fails with InvalidInput and returns no table.
C7_InvalidInputRejected ==
    \A i \in DOMAIN runs :
        ~ValidFundSet(funds) => runs[i].outcome = "InvalidInput"

\* this.map as the last call found it
MapBeforeLastRun == IF Len(runs) = 2 THEN runs[1].result ELSE <<>>

\* the order o of the funds with fund e left out
OrderWithout(o, e) == SelectSeq(o, LAMBDA t : t # e)

\* C14 (an empty fund is neutral): when a fund E of a valid FundSet has no
\* holdings, the returned table gives every subset containing E the weight 0
\* and every subset without E the weight that the same call gives it when E
\* is left out of the funds.
C14_EmptyFundNeutral ==
    (runs # <<>> /\ ValidFundSet(funds)) =>
        \A e \in DOMAIN funds :
            DOMAIN funds[e] = {} =>
                LET last == runs[Len(runs)]
                    without == calculateIntersections(MapBeforeLastRun,
                                    EtfPayloads(funds, OrderWithout(last.order, e)))
                IN  \A S \in Subsets(DOMAIN funds) :
                        IntersectionResult(last.result, S) =
                            IF e \in S THEN 0 ELSE IntersectionResult(without, S)

\* a call has returned whose first fund has no holdings and whose other two
\* funds hold one symbol with positive weights
C14_Witness ==
    /\ runs # <<>>
    /\ ValidFundSet(funds)
    /\ Cardinality(DOMAIN funds) = 3
    /\ LET o == runs[Len(runs)].order
       IN  /\ DOMAIN funds[o[1]] = {}
           /\ \E s \in Symbols :
                /\ HoldersOf(funds, s) = {o[2], o[3]}
                /\ funds[o[2]][s] > 0
                /\ funds[o[3]][s] > 0

----------------------------------------------------------------------------
(* Claims about the steps of a call, under FairSpec *)

\* the funds whose holding of symbol s the running call has passed to the
\* loop body so far: the funds before ei, and fund ei if its holding of s
\* lies before hi
VisitedFunds(s) ==
    {k \in DOMAIN arg :
        \E j \in DOMAIN arg[k].holdings :
            /\ arg[k].holdings[j].symbol = s
            /\ k < ei \/ (k = ei /\ j < hi)}

\* what the running call has processed for symbol s, in order: each
\* execution of the loop body handles one holding of one fund
ProcessedSubsets(s) ==
    LET idx == VisitedFunds(s)
        kth(i) == CHOOSE k \in idx : Cardinality({j \in idx : j < k}) = i - 1
    IN  [i \in 1..Cardinality(idx) |-> {arg[kth(i)].ticker}]

\* the fund identifiers in ascending (lexicographic) order
TickerOrder == <<"ETF1", "ETF2", "ETF3">>

RankOf(t) == CHOOSE i \in DOMAIN TickerOrder : TickerOrder[i] = t

\* S comes before T in ascending lexicographic order of the sorted
\* identifier sequences, S and T of one size: the least identifier in which
\* they differ belongs to S
LexBefore(S, T) ==
    /\ S # T
    /\ LET diff == (S \ T) \cup (T \ S)
           least == CHOOSE t \in diff : \A u \in diff : RankOf(t) <= RankOf(u)
       IN  least \in S

\* S is processed before T: larger subsets first, and among subsets of one
\* size the lexicographically smaller first
ProcessedBefore(S, T) ==
    \/ Cardinality(S) > Cardinality(T)
    \/ Cardinality(S) = Cardinality(T) /\ LexBefore(S, T)

\* the 2^n - 1 non-empty subsets of the funds F in processing order
SubsetOrder(F) ==
    LET all == Subsets(F)
        place(S) == 1 + Cardinality({T \in all : ProcessedBefore(T, S)})
    IN  [i \in 1..Cardinality(all) |-> CHOOSE S \in all : place(S) = i]

\* C11 (processing order): when a call on a valid FundSet has returned, it
\* has processed, for each symbol held by some fund, all 2^n - 1 subsets of
\* the funds: in decreasing order of cardinality, within one cardinality in
\* ascending lexicographic order, the singletons last.
C11_ProcessingOrder ==
    (pc = "done" /\ ValidFundSet(funds)) =>
        \A s \in Symbols :
            HoldersOf(funds, s) # {} => ProcessedSubsets(s) = SubsetOrder(DOMAIN funds)

\* the weight table m attributes to exactly the funds S for symbol s
ClaimedWeight(m, s, S) ==
    LET mine == {k \in DOMAIN m : m[k].symbol = s /\ Holders(m[k]) = S}
    IN  SumOver([k \in mine |-> EntryWeight(m[k])], mine)

\* RemainingWeight[s, t] when the table is m: fund t's input weight for
\* symbol s (0 if t does not hold s) less what m attributes to the subsets
\* containing t. The code keeps no ledger of its own; this.map is the only
\* record of what has been claimed.
RemainingWeight(m, s, t) ==
    LET with == {S \in Subsets(DOMAIN funds) : t \in S}
    IN  (IF s \in DOMAIN funds[t] THEN funds[t][s] ELSE 0)
            - SumOver([S \in with |-> ClaimedWeight(m, s, S)], with)

\* C12 (ledger safety): in every state of a call every remaining weight is
\* >= 0; no step of the call increases one; and the amount a step claims for
\* a subset is at most the least remaining weight of the subset's funds.
C12_LedgerSafety ==
    /\ [](pc \in {"loop", "done"} =>
            \A s \in Symbols : \A t \in DOMAIN funds : RemainingWeight(map, s, t) >= 0)
    /\ [][pc = "loop" =>
            \A s \in Symbols : \A t \in DOMAIN funds :
                RemainingWeight(map', s, t) <= RemainingWeight(map, s, t)]_vars
    /\ [][pc = "loop" =>
            \A s \in Symbols : \A S \in Subsets(DOMAIN funds) :
                ClaimedWeight(map', s, S) - ClaimedWeight(map, s, S)
                    <= MinOf({RemainingWeight(map, s, t) : t \in S})]_vars

\* a call is running and its loop body has handled a positive-weight holding
\* of a symbol that a second fund, with a smaller weight, holds as well
C12_Witness ==
    /\ pc = "loop"
    /\ \E s \in Symbols : \E k \in VisitedFunds(s) : \E t \in HoldersOf(funds, s) :
            /\ funds[arg[k].ticker][s] > 0
            /\ funds[t][s] < funds[arg[k].ticker][s]

\* C13 (full depletion per symbol): when a call on a valid FundSet has
\* returned, every fund's remaining weight is 0 for every symbol (no
\* ConservationViolation): what the larger subsets left of a fund's weight
\* has gone to the fund's singleton.
C13_FullDepletion ==
    (pc = "done" /\ ValidFundSet(funds)) =>
        \A s \in Symbols : \A t \in DOMAIN funds :
            /\ RemainingWeight(map, s, t) = 0
            /\ ClaimedWeight(map, s, {t}) =
                    (IF s \in DOMAIN funds[t] THEN funds[t][s] ELSE 0)
                        - SumOver([S \in {T \in Subsets(DOMAIN funds) : t \in T /\ T # {t}}
                                        |-> ClaimedWeight(map, s, S)],
                                  {T \in Subsets(DOMAIN funds) : t \in T /\ T # {t}})

----------------------------------------------------------------------------
(* The express server: POST /api-key and GET /etf/:ticker (ServerSpec) *)

\* GET /etf/:ticker requests that arrive
MaxRequests == 3

\* the tickers of the request paths; the route matches no empty ticker
RawTickers == {"spy", "SPY", "QQQ"}

\* String.prototype.toUpperCase on the tickers
toUpperCase(t) == IF t = "spy" THEN "SPY" ELSE t

\* the symbols a cache file can be named after
EtfSymbols == {toUpperCase(t) : t \in RawTickers}

\* keys a user saves; the POST body's apiKey may also be empty or no string
Keys == {"KEY1"}

PostBodies == Keys \cup {"", "non_string"}

\* what api-key.json can hold: no file, text that is no JSON, JSON without
\* apiKey, JSON whose apiKey is no string or the empty string, or JSON with
\* the string apiKey
ApiKeyFiles == {"missing", "unparsable", "no_apiKey", "non_string", "empty_string"} \cup Keys

\* what Alpha Vantage answers with status 200: an ETF profile with holdings,
\* or a JSON message without holdings (rate limit, unknown symbol)
ProviderData == {"holdings", "no_holdings"}

\* The field byDemo of a cache file is not part of the file: it records
\* whether the key in the URL that fetched the result was 'demo'.
NoFile == [state |-> "absent", ticker |-> "", data |-> "", byDemo |-> FALSE]

CorruptFile == [state |-> "corrupt", ticker |-> "", data |-> "", byDemo |-> FALSE]

\* JSON.stringify(result): the cache file of a result fetched with apiKey
CacheFile(symbol, data, apiKey) ==
    [state |-> "ok", ticker |-> symbol, data |-> data, byDemo |-> (apiKey = "demo")]

\* a variant whose catch branch does not set usedDemoKey
getAlphaVantageApiKeySilentCatch(file) ==
    IF file = "missing" THEN [apiKey |-> "demo", usedDemoKey |-> TRUE]
    ELSE IF file = "unparsable" THEN [apiKey |-> "demo", usedDemoKey |-> FALSE]
    ELSE IF file \in Keys THEN [apiKey |-> file, usedDemoKey |-> FALSE]
    ELSE [apiKey |-> "demo", usedDemoKey |-> TRUE]

\* getAlphaVantageApiKey, on the content of api-key.json
getAlphaVantageApiKey(file) ==
    IF file = "missing" THEN [apiKey |-> "demo", usedDemoKey |-> TRUE]
    ELSE IF file = "unparsable" THEN [apiKey |-> "demo", usedDemoKey |-> TRUE]
    ELSE IF file \in Keys THEN [apiKey |-> file, usedDemoKey |-> FALSE]
    ELSE [apiKey |-> "demo", usedDemoKey |-> TRUE]

\* POST /api-key with body apiKey b: an empty or non-string apiKey is answered
\* 400; otherwise fs.writeFile is started and completes later
PostApiKey ==
    /\ \E b \in PostBodies :
        IF b = "" \/ b = "non_string"
        THEN UNCHANGED keyWrites
        ELSE keyWrites' = keyWrites \cup {b}
    /\ UNCHANGED <<apiKeyFile, cache, arrived, pending, reply, providerCalls>>
    /\ UNCHANGED <<allocVars, guiVars, plotVars>>

\* a started fs.writeFile has truncated api-key.json and not yet written it
KeyWriteInProgress ==
    /\ keyWrites # {}
    /\ apiKeyFile' = "unparsable"
    /\ UNCHANGED <<keyWrites, cache, arrived, pending, reply, providerCalls>>
    /\ UNCHANGED <<allocVars, guiVars, plotVars>>

\* fs.writeFile's callback without error: the file holds the key, answer ok
KeyWritten ==
    /\ \E b \in keyWrites :
        /\ apiKeyFile' = b
        /\ keyWrites' = keyWrites \ {b}
    /\ UNCHANGED <<cache, arrived, pending, reply, providerCalls>>
    /\ UNCHANGED <<allocVars, guiVars, plotVars>>

\* fs.writeFile's callback with an error: answer 500
KeyWriteFailed ==
    /\ \E b \in keyWrites : keyWrites' = keyWrites \ {b}
    /\ UNCHANGED <<apiKeyFile, cache, arrived, pending, reply, providerCalls>>
    /\ UNCHANGED <<allocVars, guiVars, plotVars>>

\* whether the handler goes to the provider: it does unless the cache file
\* of the symbol exists and parses (fs.existsSync, then JSON.parse in a try)
MustFetch(c, symbol) == c[symbol].state # "ok"

\* s without its i-th element
Without(s, i) == SubSeq(s, 1, i - 1) \o SubSeq(s, i + 1, Len(s))

\* GET /etf/:ticker up to its answer or its await: a readable cache file is
\* answered from; otherwise the key is read and axios.get is issued (the
\* field read of an awaiting request records what api-key.json held then)
GetEtf ==
    /\ arrived < MaxRequests
    /\ arrived' = arrived + 1
    /\ \E t \in RawTickers :
        LET symbol == toUpperCase(t)
            key == getAlphaVantageApiKey(apiKeyFile)
        IN  IF MustFetch(cache, symbol)
            THEN /\ pending' = Append(pending,
                        [symbol |-> symbol, usedDemoKey |-> key.usedDemoKey,
                         apiKey |-> key.apiKey, read |-> apiKeyFile])
                 /\ providerCalls' = [providerCalls EXCEPT ![symbol] = @ + 1]
                 /\ UNCHANGED reply
            ELSE /\ reply' = <<[status |-> 200, source |-> "CACHE", usedDemoKey |-> FALSE,
                                 payload |-> cache[symbol]]>>
                 /\ UNCHANGED <<pending, providerCalls>>
    /\ UNCHANGED <<apiKeyFile, keyWrites, cache>>
    /\ UNCHANGED <<allocVars, guiVars, plotVars>>

\* axios.get resolves: the result is written to the cache file and answered
ProviderReplies ==
    /\ \E i \in DOMAIN pending : \E data \in ProviderData :
        LET result == CacheFile(pending[i].symbol, data, pending[i].apiKey)
        IN  /\ cache' = [cache EXCEPT ![pending[i].symbol] = result]
            /\ reply' = <<[status |-> 200, source |-> "NET",
                            usedDemoKey |-> pending[i].usedDemoKey, payload |-> result]>>
            /\ pending' = Without(pending, i)
    /\ UNCHANGED <<apiKeyFile, keyWrites, arrived, providerCalls>>
    /\ UNCHANGED <<allocVars, guiVars, plotVars>>

\* axios.get rejects: answer 500, nothing is written
ProviderFails ==
    /\ \E i \in DOMAIN pending :
        /\ reply' = <<[status |-> 500, source |-> "", usedDemoKey |-> FALSE,
                        payload |-> NoFile]>>
        /\ pending' = Without(pending, i)
    /\ UNCHANGED <<apiKeyFile, keyWrites, cache, arrived, providerCalls>>
    /\ UNCHANGED <<allocVars, guiVars, plotVars>>

\* the cache files a started server can find: none, one left unreadable, or
\* the result of an earlier fetch
CacheFilesOf(s) ==
    {NoFile, CorruptFile} \cup {CacheFile(s, "holdings", k) : k \in Keys \cup {"demo"}}

\* the server is started with whatever api-key.json and cache files exist
ServerInit ==
    /\ funds = <<>>
    /\ map = <<>>
    /\ runs = <<>>
    /\ pc = "idle"
    /\ arg = <<>>
    /\ ei = 0
    /\ hi = 0
    /\ processed = [s \in Symbols |-> 0]
    /\ apiKeyFile \in ApiKeyFiles
    /\ keyWrites = {}
    /\ cache \in [EtfSymbols -> UNION {CacheFilesOf(s) : s \in EtfSymbols}]
    /\ \A s \in EtfSymbols : cache[s] \in CacheFilesOf(s)
    /\ arrived = 0
    /\ pending = <<>>
    /\ reply = <<>>
    /\ providerCalls = [s \in EtfSymbols |-> 0]
    /\ GuiIdle

ServerNext ==
    \/ PostApiKey
    \/ KeyWriteInProgress
    \/ KeyWritten
    \/ KeyWriteFailed
    \/ GetEtf
    \/ ProviderReplies
    \/ ProviderFails

ServerSpec == ServerInit /\ [][ServerNext]_vars

\* C8 (each unique ETF costs one provider call): over any interleaving of
\* GET /etf/:ticker requests the provider is called at most once per distinct
\* ticker, tickers that differ only in letter case being one ticker.
C8_OneProviderCallPerTicker == \A s \in EtfSymbols : providerCalls[s] <= 1

\* The second half of C8: a request that arrives when a fetch for its ticker
\* has succeeded (the cache file is written) is answered from the cache file
\* and calls no provider.
C8_LaterRequestsFromCache ==
    [][(arrived' = arrived + 1 /\ providerCalls' # providerCalls)
        => \E s \in EtfSymbols :
            /\ providerCalls' = [providerCalls EXCEPT ![s] = @ + 1]
            /\ cache[s].state # "ok"]_vars

\* what getAlphaVantageApiKey is to return for an awaiting request p, given
\* what api-key.json held when p read it: the stored key and usedDemoKey =
\* false if the file holds a non-empty string apiKey, 'demo' and true if not
FallbackKeyOf(p) ==
    /\ p.apiKey = (IF p.read \in Keys THEN p.read ELSE "demo")
    /\ p.usedDemoKey = (p.read \notin Keys)

C16_NoWriteOnFailureOrHit ==
    /\ [][(Len(pending') < Len(pending) /\ reply'[1].status = 500) => cache' = cache]_vars
    /\ [][(arrived' = arrived + 1 /\ pending' = pending) =>
            /\ reply'[1].source = "CACHE"
            /\ cache' = cache]_vars

\* C16 (cache integrity under failure): a failed fetch is answered 500 and
\* writes no cache file; an answer from the cache leaves the file unchanged;
\* and every cache file that exists holds a fetched payload with holdings,
\* so that every answer from the cache carries holdings.
C16_CacheIntegrity ==
    /\ C16_NoWriteOnFailureOrHit
    /\ [](\A s \in EtfSymbols : cache[s].state = "ok" => cache[s].data = "holdings")
    /\ [](\A i \in DOMAIN reply :
            reply[i].source = "CACHE" => reply[i].payload.data = "holdings")

----------------------------------------------------------------------------
(* AppComponent of etf-overlap-viewer (GuiSpec) *)

\* entries of logs the model keeps (the most recent ones)
MaxLogs == 1

\* saveApiKey requests in flight
MaxSaves == 1

\* what the user types into an ETF input field
EtfInputs == {"", "SPY"}

\* what the user types into the API key field
ApiKeyInputs == {"", " ", "KEY1"}

\* String.prototype.trim on the API key inputs
Trim(t) == IF t = " " THEN "" ELSE t

\* log(msg): this.logs.unshift(...), the timestamp left out
Log(l, msg) == SubSeq(<<msg>> \o l, 1, IF Len(l) + 1 > MaxLogs THEN MaxLogs ELSE Len(l) + 1)

openApiKeyModal ==
    /\ showApiModal' = TRUE
    /\ lastOp' = "other"
    /\ UNCHANGED <<etfs, selectedEtfIndex, isDark, hasPlot, logs, apiKeyInput, saves, container>>
    /\ UNCHANGED <<allocVars, serverVars, plotVars>>

closeApiKeyModal ==
    /\ showApiModal' = FALSE
    /\ apiKeyInput' = ""
    /\ lastOp' = "other"
    /\ UNCHANGED <<etfs, selectedEtfIndex, isDark, hasPlot, logs, saves, container>>
    /\ UNCHANGED <<allocVars, serverVars, plotVars>>

\* the user types into the field bound to apiKeyInput
TypeApiKey ==
    /\ \E t \in ApiKeyInputs : apiKeyInput' = t
    /\ lastOp' = "other"
    /\ UNCHANGED <<etfs, selectedEtfIndex, isDark, hasPlot, logs, showApiModal, saves, container>>
    /\ UNCHANGED <<allocVars, serverVars, plotVars>>

\* saveApiKey: an empty key is logged and the modal closed; otherwise the key
\* is posted and the answer handled later
saveApiKey ==
    /\ IF Trim(apiKeyInput) = ""
       THEN /\ logs' = Log(logs, "API key is empty. Not saving.")
            /\ showApiModal' = FALSE
            /\ apiKeyInput' = ""
            /\ UNCHANGED saves
       ELSE /\ saves < MaxSaves
            /\ saves' = saves + 1
            /\ UNCHANGED <<logs, showApiModal, apiKeyInput>>
    /\ lastOp' = "other"
    /\ UNCHANGED <<etfs, selectedEtfIndex, isDark, hasPlot, container>>
    /\ UNCHANGED <<allocVars, serverVars, plotVars>>

\* the next callback of saveApiKey's subscription
SaveSucceeded ==
    /\ saves > 0
    /\ saves' = saves - 1
    /\ logs' = Log(logs, "API key saved to api-key.json.")
    /\ showApiModal' = FALSE
    /\ apiKeyInput' = ""
    /\ lastOp' = "other"
    /\ UNCHANGED <<etfs, selectedEtfIndex, isDark, hasPlot, container>>
    /\ UNCHANGED <<allocVars, serverVars, plotVars>>

\* the error callback of saveApiKey's subscription
SaveFailed ==
    /\ saves > 0
    /\ saves' = saves - 1
    /\ logs' = Log(logs, "Failed to save API key (see console for details).")
    /\ lastOp' = "other"
    /\ UNCHANGED <<etfs, selectedEtfIndex, isDark, hasPlot, showApiModal, apiKeyInput, container>>
    /\ UNCHANGED <<allocVars, serverVars, plotVars>>

\* the body of onPlotOverlap on logs l: the logs after it
PlotOverlapLogs(l) ==
    IF container
    THEN Log(l, "Plot Overlap clicked")
    ELSE Log(Log(l, "Plot Overlap clicked"), "Plot container not available.")

\* onPlotOverlap: renders the hardcoded three-set example
onPlotOverlap ==
    /\ logs' = PlotOverlapLogs(logs)
    /\ hasPlot' = IF container THEN TRUE ELSE hasPlot
    /\ lastOp' = "other"
    /\ UNCHANGED <<etfs, selectedEtfIndex, isDark, showApiModal, apiKeyInput, saves, container>>
    /\ UNCHANGED <<allocVars, serverVars, plotVars>>

\* toggleTheme: flips the theme and renders the plot again if there is one
toggleTheme ==
    /\ isDark' = ~isDark
    /\ LET themed == Log(logs, IF isDark' THEN "Theme changed to Dark mode."
                                           ELSE "Theme changed to Light mode.")
       IN  logs' = IF hasPlot THEN PlotOverlapLogs(themed) ELSE themed
    /\ lastOp' = "other"
    /\ UNCHANGED <<etfs, selectedEtfIndex, hasPlot, showApiModal, apiKeyInput, saves, container>>
    /\ UNCHANGED <<allocVars, serverVars, plotVars>>

\* a variant of the guard that lets a sixth field in
CanAddEtfOffByOne(n) == n <= MaxEtfs

\* addEtfField's guard, on the number of fields: this.etfs.length < 5
CanAddEtf(n) == n < MaxEtfs

\* addEtfField: below five fields, push an empty one and select it
addEtfField ==
    /\ IF CanAddEtf(Len(etfs))
       THEN /\ etfs' = Append(etfs, "")
            /\ selectedEtfIndex' = Len(etfs') - 1
       ELSE UNCHANGED <<etfs, selectedEtfIndex>>
    /\ lastOp' = "addEtfField"
    /\ UNCHANGED <<isDark, hasPlot, logs, showApiModal, apiKeyInput, saves, container>>
    /\ UNCHANGED <<allocVars, serverVars, plotVars>>

\* onEtfFocus(index), index the position of one of the fields
onEtfFocus ==
    /\ \E index \in 0..(Len(etfs) - 1) : selectedEtfIndex' = index
    /\ lastOp' = "other"
    /\ UNCHANGED <<etfs, isDark, hasPlot, logs, showApiModal, apiKeyInput, saves, container>>
    /\ UNCHANGED <<allocVars, serverVars, plotVars>>

\* the user types a ticker into one of the ETF input fields
TypeEtf ==
    /\ \E i \in DOMAIN etfs : \E t \in EtfInputs : etfs' = [etfs EXCEPT ![i] = t]
    /\ lastOp' = "other"
    /\ UNCHANGED <<selectedEtfIndex, isDark, hasPlot, logs, showApiModal, apiKeyInput, saves,
                   container>>
    /\ UNCHANGED <<allocVars, serverVars, plotVars>>

\* the component as constructed; plotContainer is a static ViewChild declared
\* non-null (plotContainer!), so its element is available
GuiInit ==
    /\ funds = <<>>
    /\ map = <<>>
    /\ runs = <<>>
    /\ pc = "idle"
    /\ arg = <<>>
    /\ ei = 0
    /\ hi = 0
    /\ processed = [s \in Symbols |-> 0]
    /\ ServerIdle
    /\ etfs = <<"">>
    /\ selectedEtfIndex = 0
    /\ isDark = TRUE
    /\ hasPlot = FALSE
    /\ logs = <<>>
    /\ showApiModal = FALSE
    /\ apiKeyInput = ""
    /\ saves = 0
    /\ container = TRUE
    /\ lastOp = "none"
    /\ etf_inputs = <<>>
    /\ etf_data = <<>>
    /\ fetching = <<>>
    /\ requested = {}
    /\ fetches = 0

GuiNext ==
    \/ openApiKeyModal
    \/ closeApiKeyModal
    \/ TypeApiKey
    \/ saveApiKey
    \/ SaveSucceeded
    \/ SaveFailed
    \/ onPlotOverlap
    \/ toggleTheme
    \/ addEtfField
    \/ onEtfFocus
    \/ TypeEtf

GuiSpec == GuiInit /\ [][GuiNext]_vars

\* C10 (at most 5 ETFs): the list of ETF input fields always has between 1
\* and 5 entries; addEtfField on a list of 5 changes neither the list nor
\* selectedEtfIndex, and otherwise appends one empty field and selects it; no
\* other operation changes the number of fields.
C10_AtMostFiveEtfs ==
    /\ [](Len(etfs) >= 1 /\ Len(etfs) <= MaxEtfs)
    /\ [][lastOp' = "addEtfField" =>
            IF Len(etfs) = MaxEtfs
            THEN etfs' = etfs /\ selectedEtfIndex' = selectedEtfIndex
            ELSE /\ etfs' = Append(etfs, "")
                 /\ selectedEtfIndex' = Len(etfs)]_vars
    /\ [][lastOp' # "addEtfField" => Len(etfs') = Len(etfs)]_vars

\* addEtfField has run on a list of 5 with a ticker typed into its last field
\* (had it appended, the last field would be empty and the selected one)
C10_Witness ==
    /\ lastOp = "addEtfField"
    /\ Len(etfs) = MaxEtfs
    /\ etfs[MaxEtfs] # ""
    /\ selectedEtfIndex # MaxEtfs - 1

----------------------------------------------------------------------------
(* AppComponent, the version that fetches holdings (PlotSpec):              *)
(* src/src/alphavantage/alphavantage.service.ts, lines 451-610              *)

\* getEtfHoldings requests issued in one run of the model
MaxFetches == 6

\* the number of tickers entered
MaxInputs == 2

\* what the user enters as a ticker
EtfInputTickers == {"", "spy", "QQQ"}

\* the values etf_inputs can be given
EtfInputLists == UNION {[1..n -> EtfInputTickers] : n \in 0..MaxInputs}

\* the order of Array.prototype.sort without a comparator (by code units)
CodeUnitOrder == <<"", "QQQ", "spy">>

CodeUnitRank(t) == CHOOSE i \in DOMAIN CodeUnitOrder : CodeUnitOrder[i] = t

\* q.sort(): the elements of q in code-unit order
Sort(q) ==
    CHOOSE r \in [DOMAIN q -> {q[i] : i \in DOMAIN q}] :
        /\ \A x \in EtfInputTickers :
            Cardinality({i \in DOMAIN q : q[i] = x}) = Cardinality({i \in DOMAIN r : r[i] = x})
        /\ \A i, j \in DOMAIN r : i < j => CodeUnitRank(r[i]) <= CodeUnitRank(r[j])

\* fetchEtfHoldings(ticker) on st = [logs, fetching, fetches]: an empty
\* ticker is logged and skipped; otherwise getEtfHoldings requests
\* /etf/<ticker trimmed and in upper case>
fetchEtfHoldings(st, ticker) ==
    IF Trim(ticker) = ""
    THEN [st EXCEPT !.logs = Log(@, "Skipping empty ETF ticker.")]
    ELSE [logs |-> Log(st.logs, "Requesting holdings..."),
          fetching |-> [st.fetching EXCEPT ![toUpperCase(Trim(ticker))] = @ + 1],
          fetches |-> st.fetches + 1]

\* for (const ticker of this.etf_inputs), from index k on
RECURSIVE OverInputs(_, _, _)
OverInputs(st, q, k) ==
    IF k > Len(q) THEN st ELSE OverInputs(fetchEtfHoldings(st, q[k]), q, k + 1)

\* onPlotOverlap's check: this.etf_inputs.length < 2
TooFewInputs(q) == Len(q) < 2

\* the body of onPlotOverlap on logs l: the component's fields after it
\* (requested is the record of what this call asked for)
PlotOverlapFetch(l) ==
    LET listed == Log(l, "ETF inputs")
        sorted == Sort(etf_inputs)
        st == OverInputs([logs |-> Log(listed, "sorted tickers"), fetching |-> fetching,
                          fetches |-> fetches], sorted, 1)
    IN  IF TooFewInputs(etf_inputs)
        THEN [logs |-> Log(listed, "[ERR] Must input at least 2 ETFs to compare."),
              etf_inputs |-> etf_inputs, fetching |-> fetching, fetches |-> fetches,
              requested |-> requested]
        ELSE [logs |-> st.logs, etf_inputs |-> sorted, fetching |-> st.fetching,
              fetches |-> st.fetches,
              requested |-> {toUpperCase(Trim(sorted[i])) :
                                i \in {j \in DOMAIN sorted : Trim(sorted[j]) # ""}}]

\* the user enters the tickers (while the model lets requests be issued)
TypeEtfInputs ==
    /\ fetches < MaxFetches
    /\ \E q \in EtfInputLists : etf_inputs' = q
    /\ UNCHANGED <<etf_data, fetching, requested, fetches>>
    /\ UNCHANGED <<allocVars, serverVars, guiVars>>

\* onPlotOverlap: with fewer than 2 inputs an error is logged; otherwise the
\* inputs are sorted and the holdings of each are requested
onPlotOverlapFetch ==
    /\ LET after == PlotOverlapFetch(logs)
       IN  /\ after.fetches <= MaxFetches
           /\ logs' = after.logs
           /\ etf_inputs' = after.etf_inputs
           /\ fetching' = after.fetching
           /\ fetches' = after.fetches
           /\ requested' = after.requested
    /\ UNCHANGED etf_data
    /\ UNCHANGED <<etfs, selectedEtfIndex, isDark, hasPlot, showApiModal, apiKeyInput, saves,
                   container, lastOp>>
    /\ UNCHANGED <<allocVars, serverVars>>

\* the next callback of a getEtfHoldings subscription: the response is
\* logged and pushed onto etf_data (of a response the model keeps
\* payload.ticker)
FetchNext ==
    /\ \E s \in EtfSymbols : \E usedDemoKey \in BOOLEAN :
        /\ fetching[s] > 0
        /\ fetching' = [fetching EXCEPT ![s] = @ - 1]
        /\ logs' = IF usedDemoKey
                   THEN Log(Log(logs, "last fetched"), "No API key saved; using demo key.")
                   ELSE Log(logs, "last fetched")
        /\ etf_data' = Append(etf_data, [ticker |-> s])
    /\ UNCHANGED <<etf_inputs, requested, fetches>>
    /\ UNCHANGED <<etfs, selectedEtfIndex, isDark, hasPlot, showApiModal, apiKeyInput, saves,
                   container, lastOp>>
    /\ UNCHANGED <<allocVars, serverVars>>

\* the error callback of a getEtfHoldings subscription
FetchError ==
    /\ \E s \in EtfSymbols :
        /\ fetching[s] > 0
        /\ fetching' = [fetching EXCEPT ![s] = @ - 1]
    /\ logs' = Log(logs, "Error fetching holdings.")
    /\ UNCHANGED <<etf_inputs, etf_data, requested, fetches>>
    /\ UNCHANGED <<etfs, selectedEtfIndex, isDark, hasPlot, showApiModal, apiKeyInput, saves,
                   container, lastOp>>
    /\ UNCHANGED <<allocVars, serverVars>>

\* plotOverlap: renders the hardcoded three-set example
plotOverlap ==
    /\ IF container
       THEN hasPlot' = TRUE /\ UNCHANGED logs
       ELSE logs' = Log(logs, "Plot container not available.") /\ UNCHANGED hasPlot
    /\ UNCHANGED plotVars
    /\ UNCHANGED <<etfs, selectedEtfIndex, isDark, showApiModal, apiKeyInput, saves,
                   container, lastOp>>
    /\ UNCHANGED <<allocVars, serverVars>>

\* toggleTheme: flips the theme and, if there is a plot, runs onPlotOverlap
toggleThemeFetch ==
    /\ isDark' = ~isDark
    /\ LET themed == Log(logs, IF isDark' THEN "Theme changed to Dark mode."
                                           ELSE "Theme changed to Light mode.")
           after == PlotOverlapFetch(themed)
       IN  IF hasPlot
           THEN /\ after.fetches <= MaxFetches
                /\ logs' = after.logs
                /\ etf_inputs' = after.etf_inputs
                /\ fetching' = after.fetching
                /\ fetches' = after.fetches
                /\ requested' = after.requested
           ELSE /\ logs' = themed
                /\ UNCHANGED <<etf_inputs, fetching, fetches, requested>>
    /\ UNCHANGED etf_data
    /\ UNCHANGED <<etfs, selectedEtfIndex, hasPlot, showApiModal, apiKeyInput, saves,
                   container, lastOp>>
    /\ UNCHANGED <<allocVars, serverVars>>

\* the component as constructed
PlotInit ==
    /\ funds = <<>>
    /\ map = <<>>
    /\ runs = <<>>
    /\ pc = "idle"
    /\ arg = <<>>
    /\ ei = 0
    /\ hi = 0
    /\ processed = [s \in Symbols |-> 0]
    /\ ServerIdle
    /\ etfs = <<"">>
    /\ selectedEtfIndex = 0
    /\ isDark = TRUE
    /\ hasPlot = FALSE
    /\ logs = <<>>
    /\ showApiModal = FALSE
    /\ apiKeyInput = ""
    /\ saves = 0
    /\ container = TRUE
    /\ lastOp = "none"
    /\ etf_inputs = <<>>
    /\ etf_data = <<>>
    /\ fetching = [s \in EtfSymbols |-> 0]
    /\ requested = {}
    /\ fetches = 0

PlotNext ==
    \/ TypeEtfInputs
    \/ onPlotOverlapFetch
    \/ FetchNext
    \/ FetchError
    \/ plotOverlap
    \/ toggleThemeFetch

PlotSpec == PlotInit /\ [][PlotNext]_vars

\* C17 (the fetched fund set stays a valid FundSet): after any sequence of
\* Plot Overlap clicks, theme toggles and fetch responses, etf_data holds at
\* most 5 entries, at most one entry per ticker, and only entries for
\* tickers of the most recent Plot Overlap request.
C17_FetchedFundSet ==
    /\ Len(etf_data) <= MaxEtfs
    /\ \A i, j \in DOMAIN etf_data : etf_data[i].ticker = etf_data[j].ticker => i = j
    /\ \A i \in DOMAIN etf_data : etf_data[i].ticker \in requested

\* The part of C7 that concerns this component: with fewer than 2 tickers
\* entered, no handler requests any holdings.
C7_TooFewInputsFetchNothing ==
    [][Len(etf_inputs) < 2 => fetches' = fetches]_vars

====
